---- MODULE Spec2Model ----
(***************************************************************************)
(* The todo-backend server of src/main.go: the in-memory store             *)
(* (MockTodoService) and the HTTP dispatcher (todoHandler) behind the      *)
(* middleware chain, served by one goroutine per request.                  *)
(*                                                                         *)
(* Memory is modelled as Go lays it out: t.Todos is a slice header         *)
(* (backing array, length) over an array of pointers to Todo structs, so   *)
(* that append's in-place shift, the stale tail of a shortened slice and   *)
(* the aliasing of stored structs are all visible.  Goroutines interleave  *)
(* at the granularity of one shared-memory statement per step; a read of   *)
(* the slice header is one step.                                           *)
(***************************************************************************)
EXTENDS Integers, Sequences, FiniteSets, TLC

(* ------------------------------ bounds -------------------------------- *)

\* Handler goroutines that may be in flight at once.
NumProcs == 2

\* Creates are admitted while the identity counter can stay <= MaxId + 1.
MaxId == 2

\* The same bound for the behaviours of writers only.
MaxIdMutations == 3

\* The same bound for the behaviours that draw every kind of request.
MaxIdDispatch == 1

\* Requests address the items with identities up to MaxKey.
MaxKey == 2

Procs == 1..NumProcs


(* --------------------------- strings, codec --------------------------- *)

Range(s) == {s[k] : k \in DOMAIN s}

Digits == <<"0", "1", "2", "3", "4", "5", "6", "7", "8", "9">>

IsDigit(c) == \E d \in DOMAIN Digits : Digits[d] = c

DigitVal(c) == (CHOOSE d \in DOMAIN Digits : Digits[d] = c) - 1

RECURSIVE ParseDigits(_, _)
ParseDigits(s, acc) ==
    IF s = <<>> THEN acc ELSE ParseDigits(Tail(s), 10 * acc + DigitVal(Head(s)))

\* strconv.Atoi on a string given as its sequence of characters:
\* an optional sign, then one or more decimal digits; anything else is an error.
Atoi(s) ==
    LET signed == s # <<>> /\ Head(s) \in {"-", "+"}
        ds     == IF signed THEN Tail(s) ELSE s
    IN  IF ds = <<>> \/ \E k \in DOMAIN ds : ~IsDigit(ds[k])
        THEN [err |-> TRUE, val |-> 0]
        ELSE [err |-> FALSE,
              val |-> IF signed /\ Head(s) = "-" THEN 0 - ParseDigits(ds, 0)
                      ELSE ParseDigits(ds, 0)]

RECURSIVE FormatDigits(_)
FormatDigits(n) ==
    IF n < 10 THEN <<Digits[n + 1]>>
    ELSE Append(FormatDigits(n \div 10), Digits[(n % 10) + 1])

\* strconv.Itoa
Itoa(n) == IF n < 0 THEN <<"-">> \o FormatDigits(0 - n) ELSE FormatDigits(n)

(* ------------------------------- data --------------------------------- *)

\* The empty string of Todo.Url.
NoUrl == [scheme |-> "", host |-> "", id |-> <<>>]

\* The zero value of struct Todo.
ZeroTodo == [Id |-> 0, Title |-> "", Completed |-> FALSE, Order |-> 0, Url |-> NoUrl]

\* A request body: ok = FALSE is a body that does not decode; a field the
\* body carries is a one-element sequence, an absent field the empty sequence.
BodyOf(t, c, o) == [ok |-> TRUE, title |-> t, completed |-> c, order |-> o]
BadBody == [ok |-> FALSE, title |-> <<>>, completed |-> <<>>, order |-> <<>>]
NoBody == BodyOf(<<>>, <<>>, <<>>)

\* json.Decoder.Decode into a Todo: fields present overwrite, absent ones
\* keep the value the struct had; Id is tagged json:"-" and never decoded.
Decode(body, t) ==
    [t EXCEPT !.Title     = IF body.title = <<>> THEN @ ELSE body.title[1],
              !.Completed = IF body.completed = <<>> THEN @ ELSE body.completed[1],
              !.Order     = IF body.order = <<>> THEN @ ELSE body.order[1]]

\* json.Encoder.Encode of a Todo: every field but Id.
Encode(t) == [title |-> t.Title, completed |-> t.Completed, order |-> t.Order, url |-> t.Url]

\* r.URL.Path after strings.Split(path, "/"): "/todos" and "/todos/<key>".
Seg == <<"t", "o", "d", "o", "s">>
PathOf(key) == IF key = <<>> THEN <<<<>>, Seg>> ELSE <<<<>>, Seg, key>>

\* key := parts[2] when len(parts) > 2, else "".
KeyOf(path) == IF Len(path) > 2 THEN path[3] ELSE <<>>

Request(m, key, body, host, tls) ==
    [Method |-> m, Path |-> PathOf(key), Body |-> body, Host |-> host, TLS |-> tls]

NoRequest == Request("", <<>>, NoBody, "", FALSE)

Host == "example.com"

\* The requests drawn as inputs: every method on the collection and on the
\* items 1..MaxKey, a POST that creates and a PATCH that updates.
Keys == {<<>>} \cup {Itoa(n) : n \in 1..MaxKey}
Requests ==
    {Request(m, k, NoBody, Host, FALSE) : m \in {"GET", "DELETE"}, k \in Keys}
    \cup {Request("POST", <<>>, BodyOf(<<"a">>, <<>>, <<>>), Host, FALSE)}
    \cup {Request("PATCH", k, BodyOf(<<"b">>, <<TRUE>>, <<1>>), Host, FALSE) : k \in Keys \ {<<>>}}

(* ------------------------------- state -------------------------------- *)

VARIABLES
    nextId,   \* MockTodoService.nextId
    Todos,    \* MockTodoService.Todos: the slice header [arr, len]
    locked,   \* MockTodoService.m: TRUE while the mutex is held
    mem,      \* the live backing arrays: mem[a] is array a's cells, Len(mem[a]) its capacity
    heap,     \* the live Todo structs: heap[o] is the struct at address o
    pc,       \* per goroutine: where it is in the handler
    req,      \* per goroutine: the request it serves
    hdr,      \* per goroutine: the slice header a range / GetAll has copied
    idx,      \* per goroutine: the loop index i
    todo,     \* per goroutine: pointer to the handler's Todo (0 = nil)
    resp,     \* per goroutine: the response body written so far
    out,      \* the request the last step completed, and how it was answered
    issued,   \* history: the identities Save has assigned, in order
    watch,    \* whether this behaviour keeps the history `snaps`
    snaps,    \* history: per GET /todos in flight, the collections that existed during it
    audit,    \* whether this behaviour keeps the histories `clean`, `acked` and `expect`
    clean,    \* history: per POST or PATCH in flight, that no request against its item met it
    acked,    \* history: the items as the last answered POST or PATCH reported them
    expect    \* history: per GET /todos/{id} in flight, the item it is due to report

vars == <<nextId, Todos, locked, mem, heap, pc, req, hdr, idx, todo, resp, out, issued,
          watch, snaps, audit, clean, acked, expect>>

NoHdr == [arr |-> 0, len |-> 0]

\* No request was completed by the last step.
NoOut ==
    [proc |-> 0, req |-> NoRequest, status |-> 0, body |-> <<>>, panicked |-> FALSE,
     header |-> {}, payload |-> "none"]

\* The headers optionsOk sets on every response before anything else runs.
CorsHeadersNone == {}

CorsHeaders ==
    {<<"access-control-allow-origin", "*">>,
     <<"access-control-allow-methods", "GET, POST, PATCH, DELETE">>,
     <<"access-control-allow-headers", "accept, content-type">>}

\* The header contentTypeJsonHandler sets before optionsOk runs.
ContentType == {<<"Content-Type", "application/json; charset=UTF-8">>}

\* http.Error and http.NotFound replace the content type by their own.
TextPlain == {<<"Content-Type", "text/plain; charset=utf-8">>}

\* What the handler writes after the headers: the message of http.Error or
\* http.NotFound, nothing after WriteHeader(204) and after the return of
\* optionsOk for a preflight, else the JSON of json.Encoder.Encode.
Payload(r, status) ==
    IF status \in {400, 404, 405, 422} THEN "text"
    ELSE IF status = 204 \/ r.Method = "OPTIONS" THEN "none"
    ELSE "json"

\* Cells of backing array a; array 0 is the zero-capacity array make([]*Todo, 0) yields.
Cells(M, a) == IF a = 0 THEN <<>> ELSE M[a]

\* The ids of the collection: of the structs behind the pointers t.Todos[0:len].
Ids(T, M, H) == [k \in 1..T.len |-> H[Cells(M, T.arr)[k]].Id]

\* What a client can tell of an item: its identity and its three fields.
Plain(t) == [Id |-> t.Id, Title |-> t.Title, Completed |-> t.Completed, Order |-> t.Order]
View(T, M, H) == [k \in 1..T.len |-> Plain(H[Cells(M, T.arr)[k]])]

(* ------------------------- the Go runtime heap ------------------------ *)

\* Addresses are opaque to the program, so after every step the arrays and
\* structs are numbered in the order a walk from the roots meets them
\* (t.Todos, the copied headers, the handlers' locals), what no root reaches
\* is returned to the allocator, and a cell no header reaches is cleared: no
\* statement can read it before it is overwritten.

RECURSIVE Distinct(_, _)
Distinct(s, acc) ==
    IF s = <<>> THEN acc
    ELSE Distinct(Tail(s), IF Head(s) = 0 \/ Head(s) \in Range(acc) THEN acc
                           ELSE Append(acc, Head(s)))

\* The number address x gets in the walk `order`; the nil pointer stays nil.
Renumber(order, x) == IF x = 0 THEN 0 ELSE CHOOSE n \in DOMAIN order : order[n] = x

RECURSIVE Flatten(_, _)
Flatten(M, a) == IF a \notin DOMAIN M THEN <<>> ELSE M[a] \o Flatten(M, a + 1)

\* The arrays in the order the headers name them.
ArrOrder(T, Hd) == Distinct(<<T.arr>> \o [p \in Procs |-> Hd[p].arr], <<>>)

\* The greatest length under which some header sees array a.
Reach(T, Hd, a) ==
    LET lens == {h.len : h \in {g \in {T} \cup {Hd[p] : p \in Procs} : g.arr = a}}
    IN  CHOOSE n \in lens : \A m \in lens : m <= n

\* The arrays after collection, still with the old struct addresses.
SweepMem(M, T, Hd) ==
    LET order == ArrOrder(T, Hd) IN
    [n \in DOMAIN order |->
        [k \in DOMAIN M[order[n]] |->
            IF k <= Reach(T, Hd, order[n]) THEN M[order[n]][k] ELSE 0]]

\* The structs in the order the swept arrays and the locals name them.
ObjOrder(M, L) == Distinct(Flatten(M, 1) \o [p \in Procs |-> L[p]], <<>>)

SweepHeap(H, order) == [n \in DOMAIN order |-> H[order[n]]]

\* The allocator hands out the next array and the next struct.
NewArr == Len(mem) + 1
NewObj == Len(heap) + 1

\* runtime.growslice for a slice of pointers: 0 -> 1, then doubling.
GrowCap(c) == IF c = 0 THEN 1 ELSE 2 * c

(* ------------------------------- Init --------------------------------- *)

\* NewMockTodoService: an empty collection, the counter at 1, the mutex
\* released; no request has arrived yet.
Fresh ==
    /\ nextId = 1
    /\ Todos = NoHdr
    /\ locked = FALSE
    /\ mem = <<>>
    /\ heap = <<>>
    /\ pc = [p \in Procs |-> "idle"]
    /\ req = [p \in Procs |-> NoRequest]
    /\ hdr = [p \in Procs |-> NoHdr]
    /\ idx = [p \in Procs |-> 0]
    /\ todo = [p \in Procs |-> 0]
    /\ resp = [p \in Procs |-> <<>>]
    /\ out = NoOut
    /\ issued = <<>>
    /\ snaps = [p \in Procs |-> {}]
    /\ clean = [p \in Procs |-> FALSE]
    /\ acked = {}
    /\ expect = [p \in Procs |-> {}]

Init == Fresh /\ watch = FALSE /\ audit = FALSE

\* The same server, observed: the collections each GET /todos lives through
\* are recorded.
InitWatched == Fresh /\ watch = TRUE /\ audit = FALSE

\* The same server, audited: what the answered writes reported is recorded
\* and held against the reads that follow them.
InitAudited == Fresh /\ watch = FALSE /\ audit = TRUE

(* ----------------------------- bookkeeping ---------------------------- *)

\* GET /todos is r.
IsList(r) == r.Method = "GET" /\ KeyOf(r.Path) = <<>>

\* The history of collections each GET /todos has lived through, from the
\* step that receives it to the step that answers it.
Watch ==
    /\ watch' = watch
    /\ snaps' = IF ~watch THEN snaps
                ELSE [q \in Procs |->
                         IF \/ pc'[q] # "idle" /\ IsList(req'[q])
                            \/ out'.proc = q /\ IsList(out'.req)
                         THEN (IF pc[q] = "idle" THEN {} ELSE snaps[q])
                                  \cup {View(Todos', mem', heap')}
                         ELSE {}]

\* Request r is addressed against the item id: a PATCH or DELETE of that id,
\* or the DELETE of the whole collection.
Targets(r, id) ==
    /\ r.Method \in {"PATCH", "DELETE"}
    /\ \/ r.Method = "DELETE" /\ KeyOf(r.Path) = <<>>
       \/ ~Atoi(KeyOf(r.Path)).err /\ Atoi(KeyOf(r.Path)).val = id

\* Request r is addressed against the item that the write w puts into the
\* store: for a POST, whose item has no id before Save, any PATCH or DELETE.
Against(r, w) ==
    IF w.Method = "POST" THEN r.Method \in {"PATCH", "DELETE"}
    ELSE Targets(r, Atoi(KeyOf(w.Path)).val)

\* The history of answered writes.  A POST or PATCH is clean while no
\* request against its item has been in flight together with it.  An item
\* is acked from the step that answers its clean POST with 201 or its clean
\* PATCH with 200, with the fields that answer reported; it stops being
\* acked when a request against it arrives.  A GET /todos/{id} is due to
\* report the item that is acked under its id when it arrives, unless a
\* request against the item arrives while the GET is in flight.
Audit ==
    LET arriving == {q \in Procs : pc[q] = "idle" /\ pc'[q] # "idle"}
        arrivals == {req'[q] : q \in arriving}
        still(S) == {a \in S : \A r \in arrivals : ~Targets(r, a.Id)}
        wrote    == /\ out'.proc # 0
                    /\ \/ out'.req.Method = "POST" /\ out'.status = 201
                       \/ out'.req.Method = "PATCH" /\ out'.status = 200
        id       == heap[todo[out'.proc]].Id
        item     == [Id |-> id, Title |-> out'.body[1].title,
                     Completed |-> out'.body[1].completed, Order |-> out'.body[1].order]
        key(q)   == Atoi(KeyOf(req'[q].Path))
    IN  /\ audit' = audit
        /\ clean' = IF ~audit THEN clean
                    ELSE [q \in Procs |->
                             IF pc[q] # "idle"
                             THEN clean[q] /\ \A r \in arrivals : ~Against(r, req[q])
                             ELSE /\ q \in arriving
                                  /\ req'[q].Method \in {"POST", "PATCH"}
                                  /\ \A o \in Procs \ {q} :
                                        pc'[o] # "idle" => ~Against(req'[o], req'[q])]
        /\ acked' = IF ~audit THEN acked
                    ELSE IF ~wrote THEN still(acked)
                    ELSE {a \in acked : a.Id # id}
                         \cup (IF clean[out'.proc] THEN {item} ELSE {})
        /\ expect' = IF ~audit THEN expect
                     ELSE [q \in Procs |->
                              IF pc[q] # "idle" THEN still(expect[q])
                              ELSE IF q \in arriving /\ req'[q].Method = "GET" /\ ~key(q).err
                                   THEN {a \in acked : a.Id = key(q).val}
                                   ELSE {}]

\* The memory after a step: the new store and the new locals, with the
\* garbage collected.  A step that allocates nothing, drops no pointer and
\* at most copies the header of t.Todos leaves no garbage and no new
\* address behind.
Store(T, M, H, PC, RQ, HD, TD) ==
    LET arrs == ArrOrder(T, HD)
        M1   == SweepMem(M, T, HD)
        objs == ObjOrder(M1, TD)
        tidy == /\ T = Todos /\ M = mem /\ TD = todo /\ Len(H) = Len(heap)
                /\ \A p \in Procs : HD[p] = hdr[p] \/ (hdr[p] = NoHdr /\ HD[p] = T)
    IN  /\ pc' = PC
        /\ req' = RQ
        /\ IF tidy
           THEN /\ Todos' = T /\ mem' = M /\ heap' = H /\ hdr' = HD /\ todo' = TD
           ELSE /\ Todos' = [T EXCEPT !.arr = Renumber(arrs, @)]
                /\ mem' = [a \in DOMAIN M1 |->
                              [k \in DOMAIN M1[a] |-> Renumber(objs, M1[a][k])]]
                /\ heap' = SweepHeap(H, objs)
                /\ hdr' = [p \in Procs |-> [HD[p] EXCEPT !.arr = Renumber(arrs, @)]]
                /\ todo' = [p \in Procs |-> Renumber(objs, TD[p])]

\* A step inside a handler: no request is completed by it.
Commit(T, M, H, PC, RQ, HD, TD) ==
    /\ out' = NoOut
    /\ Store(T, M, H, PC, RQ, HD, TD)
    /\ Watch
    /\ Audit

\* A step of goroutine p that only moves p to label l: memory is untouched.
Goto(p, l) ==
    /\ out' = NoOut
    /\ pc' = [pc EXCEPT ![p] = l]
    /\ UNCHANGED <<Todos, mem, heap, req, hdr, todo>>
    /\ Watch
    /\ Audit

\* The handler of goroutine p returns, request r is answered, and the
\* goroutine is free for the next request; T, M, H are what the step has
\* made of the store.
Answer(p, r, status, body, panicked, T, M, H) ==
    /\ out' = [proc |-> p, req |-> r, status |-> status, body |-> body, panicked |-> panicked,
               header |-> IF panicked THEN {}
                          ELSE IF Payload(r, status) = "text"
                          THEN TextPlain \cup CorsHeaders
                          ELSE ContentType \cup CorsHeaders,
               payload |-> IF panicked THEN "none" ELSE Payload(r, status)]
    /\ resp' = [resp EXCEPT ![p] = <<>>]
    /\ idx' = [idx EXCEPT ![p] = 0]
    /\ Store(T, M, H, [pc EXCEPT ![p] = "idle"], [req EXCEPT ![p] = NoRequest],
             [hdr EXCEPT ![p] = NoHdr], [todo EXCEPT ![p] = 0])
    /\ Watch
    /\ Audit

Reply(p, status, body) == Answer(p, req[p], status, body, FALSE, Todos, mem, heap)

\* A runtime panic unwinds the handler: net/http recovers it and closes the
\* connection without a response.
Panic(p) == Answer(p, req[p], 0, <<>>, TRUE, Todos, mem, heap)

\* The id of the path, once strconv.Atoi has accepted it.
ReqId(p) == Atoi(KeyOf(req[p].Path)).val

\* A mutex that every call makes anew excludes nobody.
MutexLockLocal == TRUE

\* sync.Mutex.Lock proceeds only when the mutex is not held.
MutexLock == ~locked

(* ------------------- middleware and dispatch (local) ------------------ *)

\* A Decode that never reports an error.
DecodeErrIgnored(body) == FALSE

\* err := json.NewDecoder(r.Body).Decode(&todo); err != nil
DecodeFails(body) == ~body.ok

\* Where todoHandler takes request r before its first access to the store:
\* the label to continue at, or "done" with the status it answers at once,
\* and the Todo it has decoded into, if any.
Route(r) ==
    LET key == KeyOf(r.Path)
        id  == Atoi(key)
        at(l)   == [next |-> l, status |-> 0, alloc |-> FALSE, init |-> ZeroTodo]
        end(st) == [next |-> "done", status |-> st, alloc |-> FALSE, init |-> ZeroTodo]
        save(t) == [next |-> "Save", status |-> 0, alloc |-> TRUE, init |-> t]
    IN  CASE r.Method = "OPTIONS" -> end(200)
          [] r.Method = "GET" ->
                IF key = <<>> THEN at("GetAll")
                ELSE IF id.err THEN end(400) ELSE at("Get")
          [] r.Method = "POST" ->
                IF key # <<>> THEN end(405)
                ELSE IF DecodeFails(r.Body) THEN end(422)
                ELSE save(Decode(r.Body, [ZeroTodo EXCEPT !.Completed = FALSE]))
          [] r.Method = "PATCH" ->
                IF id.err THEN end(400)
                ELSE IF DecodeFails(r.Body) THEN end(422)
                ELSE save([Decode(r.Body, ZeroTodo) EXCEPT !.Id = id.val])
          [] r.Method = "DELETE" ->
                IF key = <<>> THEN at("DeleteAll")
                ELSE IF id.err THEN end(400) ELSE at("Delete")
          [] OTHER -> end(405)

\* Goroutines that will still draw an identity from the counter.
Creating == {q \in Procs : \/ pc[q] = "Save" /\ heap[todo[q]].Id = 0
                           \/ pc[q] = "SaveInc"}

\* A goroutine picks up a request of R: optionsOk, then todoHandler up to
\* its first access to the store, or to the reply it gives without one.
\* At most n identities are drawn in a behaviour.
ServeHTTP(p, R, n) ==
    \E r \in R :
    LET way == Route(r) IN
    /\ pc[p] = "idle"
    /\ (way.alloc /\ way.init.Id = 0) => nextId + Cardinality(Creating) <= n
    /\ UNCHANGED <<nextId, locked, issued>>
    /\ IF way.next = "done"
       THEN Answer(p, r, way.status, <<>>, FALSE, Todos, mem, heap)
       ELSE /\ UNCHANGED <<resp, idx>>
            /\ IF way.alloc
               THEN Commit(Todos, mem, Append(heap, way.init),
                           [pc EXCEPT ![p] = way.next], [req EXCEPT ![p] = r],
                           hdr, [todo EXCEPT ![p] = NewObj])
               ELSE Commit(Todos, mem, heap, [pc EXCEPT ![p] = way.next],
                           [req EXCEPT ![p] = r], hdr, todo)

(* --------------------------- slice operations ------------------------- *)

\* append(t.Todos, o): in place when the capacity allows, else into a new
\* array of grown capacity holding a copy of the elements.
AppendSlice(T, M, o) ==
    LET cells == Cells(M, T.arr) IN
    IF T.len < Len(cells)
    THEN [T |-> [arr |-> T.arr, len |-> T.len + 1],
          M |-> [M EXCEPT ![T.arr][T.len + 1] = o]]
    ELSE [T |-> [arr |-> NewArr, len |-> T.len + 1],
          M |-> Append(M, [k \in 1..GrowCap(Len(cells)) |->
                              IF k <= T.len THEN cells[k]
                              ELSE IF k = T.len + 1 THEN o ELSE 0])]

\* t.Todos[:i] and t.Todos[i+1:] are within bounds (i counts from 0).
SliceInBounds(T, M, i) == i <= Len(Cells(M, T.arr)) /\ i + 1 <= T.len

\* append(t.Todos[:i], t.Todos[i+1:]...): the elements after i move one cell
\* down in the same array, the last cell keeps its old pointer, the length
\* drops by one.
RemoveAt(T, M, i) ==
    LET cells == Cells(M, T.arr) IN
    [T |-> [arr |-> T.arr, len |-> T.len - 1],
     M |-> [M EXCEPT ![T.arr] =
               [k \in 1..Len(cells) |->
                   IF k > i /\ k < T.len THEN cells[k + 1] ELSE cells[k]]]]

\* One iteration of `for i, value := range <copied header>`: the element
\* goroutine p reads at its index, and whether it is the last one.
Cell(p) == Cells(mem, hdr[p].arr)[idx[p] + 1]
Last(p) == idx[p] + 1 >= hdr[p].len

\* The range expression is evaluated once: p copies the header of t.Todos.
BeginRange(p, loop) ==
    /\ UNCHANGED <<nextId, locked, issued, resp>>
    /\ idx' = [idx EXCEPT ![p] = 0]
    /\ Commit(Todos, mem, heap, [pc EXCEPT ![p] = loop], req,
              [hdr EXCEPT ![p] = Todos], todo)

\* The loop moves on to the next element.
NextIteration(p) ==
    /\ UNCHANGED <<nextId, locked, issued, resp>>
    /\ idx' = [idx EXCEPT ![p] = idx[p] + 1]
    /\ Goto(p, pc[p])

(* ------------------------------ GET /todos ---------------------------- *)

\* addUrlToTodos: scheme://host/todos/<id>.
UrlFor(r, id) ==
    [scheme |-> IF r.TLS THEN "https" ELSE "http", host |-> r.Host, id |-> Itoa(id)]

\* GetAll returns t.Todos itself: the handler now holds a copy of the header.
\* Both loops over an empty slice do nothing and 200 with [] is the answer.
GetAll(p) ==
    /\ pc[p] = "GetAll"
    /\ UNCHANGED <<nextId, locked, issued>>
    /\ IF Todos.len = 0
       THEN Reply(p, 200, <<>>)
       ELSE /\ UNCHANGED <<resp, idx>>
            /\ Commit(Todos, mem, heap, [pc EXCEPT ![p] = "addUrlToTodos"], req,
                      [hdr EXCEPT ![p] = Todos], todo)

\* addUrlToTodos(r, todos...): todo.Url is written into the struct each
\* element points to.
AddUrlToTodos(p) ==
    /\ pc[p] = "addUrlToTodos"
    /\ UNCHANGED <<nextId, locked, issued, resp>>
    /\ idx' = [idx EXCEPT ![p] = IF Last(p) THEN 0 ELSE idx[p] + 1]
    /\ Commit(Todos, mem,
              [heap EXCEPT ![Cell(p)].Url = UrlFor(req[p], heap[Cell(p)].Id)],
              [pc EXCEPT ![p] = IF Last(p) THEN "Encode" ELSE "addUrlToTodos"],
              req, hdr, todo)

\* json.NewEncoder(w).Encode(todos): the elements are read one after another.
EncodeTodos(p) ==
    LET body == Append(resp[p], Encode(heap[Cell(p)])) IN
    /\ pc[p] = "Encode"
    /\ UNCHANGED <<nextId, locked, issued>>
    /\ IF Last(p)
       THEN Reply(p, 200, body)
       ELSE /\ resp' = [resp EXCEPT ![p] = body]
            /\ idx' = [idx EXCEPT ![p] = idx[p] + 1]
            /\ Goto(p, "Encode")

(* ---------------------------- GET /todos/{id} ------------------------- *)

\* Get: for _, value := range t.Todos
Get(p) ==
    /\ pc[p] = "Get"
    /\ IF Todos.len = 0
       THEN UNCHANGED <<nextId, locked, issued>> /\ Reply(p, 404, <<>>)
       ELSE BeginRange(p, "GetLoop")

\* Get: if value.Id == id { return value, nil }; nil after the loop is a 404.
GetLoop(p) ==
    /\ pc[p] = "GetLoop"
    /\ IF heap[Cell(p)].Id = ReqId(p)
       THEN /\ UNCHANGED <<nextId, locked, issued, resp>>
            /\ idx' = [idx EXCEPT ![p] = 0]
            /\ Commit(Todos, mem, heap, [pc EXCEPT ![p] = "addUrlToTodo"], req,
                      [hdr EXCEPT ![p] = NoHdr], [todo EXCEPT ![p] = Cell(p)])
       ELSE IF Last(p)
            THEN UNCHANGED <<nextId, locked, issued>> /\ Reply(p, 404, <<>>)
            ELSE NextIteration(p)

\* addUrlToTodos(r, todo) for the one Todo of GET by id, POST and PATCH.
AddUrlToTodo(p) ==
    /\ pc[p] = "addUrlToTodo"
    /\ UNCHANGED <<nextId, locked, issued, resp, idx>>
    /\ Commit(Todos, mem,
              [heap EXCEPT ![todo[p]].Url = UrlFor(req[p], heap[todo[p]].Id)],
              [pc EXCEPT ![p] = "EncodeTodo"], req, hdr, todo)

\* WriteHeader(201) for POST, then Encode(todo): the struct is read now.
EncodeTodo(p) ==
    /\ pc[p] = "EncodeTodo"
    /\ UNCHANGED <<nextId, locked, issued>>
    /\ Reply(p, IF req[p].Method = "POST" THEN 201 ELSE 200, <<Encode(heap[todo[p]])>>)

(* --------------------------------- Save ------------------------------- *)

\* if todo.Id == 0 { t.m.Lock(); todo.Id = t.nextId
SaveAssignId(p) ==
    /\ pc[p] = "Save"
    /\ heap[todo[p]].Id = 0
    /\ MutexLock
    /\ locked' = TRUE
    /\ issued' = Append(issued, nextId)
    /\ UNCHANGED <<nextId, resp, idx>>
    /\ Commit(Todos, mem, [heap EXCEPT ![todo[p]].Id = nextId],
              [pc EXCEPT ![p] = "SaveInc"], req, hdr, todo)

\* t.nextId++; t.m.Unlock()
SaveIncrement(p) ==
    /\ pc[p] = "SaveInc"
    /\ nextId' = nextId + 1
    /\ locked' = FALSE
    /\ UNCHANGED <<issued, resp, idx>>
    /\ Goto(p, "SaveAppend")

\* t.m.Lock(); t.Todos = append(t.Todos, todo); t.m.Unlock(); return nil
SaveAppend(p) ==
    LET new == AppendSlice(Todos, mem, todo[p]) IN
    /\ pc[p] = "SaveAppend"
    /\ MutexLock
    /\ UNCHANGED <<nextId, locked, issued, resp, idx>>
    /\ Commit(new.T, new.M, heap, [pc EXCEPT ![p] = "addUrlToTodo"], req, hdr, todo)

\* Update existing: for i, value := range t.Todos; an empty slice goes
\* straight to "Not Found", which the handler answers with http.NotFound.
SaveUpdateRange(p) ==
    /\ pc[p] = "Save"
    /\ heap[todo[p]].Id # 0
    /\ IF Todos.len = 0
       THEN UNCHANGED <<nextId, locked, issued>> /\ Reply(p, 404, <<>>)
       ELSE BeginRange(p, "SaveLoop")

\* if value.Id == todo.Id; after the loop, "Not Found" and the 404.
SaveLoop(p) ==
    /\ pc[p] = "SaveLoop"
    /\ IF heap[Cell(p)].Id = heap[todo[p]].Id
       THEN /\ UNCHANGED <<nextId, locked, issued, resp, idx>>
            /\ Commit(Todos, mem, heap, [pc EXCEPT ![p] = "SaveStore"], req,
                      [hdr EXCEPT ![p] = NoHdr], todo)
       ELSE IF Last(p)
            THEN UNCHANGED <<nextId, locked, issued>> /\ Reply(p, 404, <<>>)
            ELSE NextIteration(p)

\* t.Todos[i] = todo; return nil.  The index is checked against the length
\* t.Todos has now; out of range is a panic.
SaveStore(p) ==
    /\ pc[p] = "SaveStore"
    /\ UNCHANGED <<nextId, locked, issued>>
    /\ IF idx[p] < Todos.len
       THEN /\ UNCHANGED resp
            /\ idx' = [idx EXCEPT ![p] = 0]
            /\ Commit(Todos, [mem EXCEPT ![Todos.arr][idx[p] + 1] = todo[p]], heap,
                      [pc EXCEPT ![p] = "addUrlToTodo"], req, hdr, todo)
       ELSE Panic(p)

(* ------------------------------- DeleteAll ---------------------------- *)

\* A DeleteAll that also starts the counter again.
DeleteAllResets(p) ==
    /\ pc[p] = "DeleteAll"
    /\ MutexLock
    /\ nextId' = 1
    /\ UNCHANGED <<locked, issued>>
    /\ Answer(p, req[p], 204, <<>>, FALSE, NoHdr, mem, heap)

\* A DeleteAll that leaves t.Todos as it is.
DeleteAllKeeps(p) ==
    /\ pc[p] = "DeleteAll"
    /\ MutexLock
    /\ UNCHANGED <<nextId, locked, issued>>
    /\ Answer(p, req[p], 204, <<>>, FALSE, Todos, mem, heap)

\* t.m.Lock(); t.Todos = make([]*Todo, 0); t.m.Unlock(); return nil; the
\* handler writes 204.
DeleteAll(p) ==
    /\ pc[p] = "DeleteAll"
    /\ MutexLock
    /\ UNCHANGED <<nextId, locked, issued>>
    /\ Answer(p, req[p], 204, <<>>, FALSE, NoHdr, mem, heap)

(* --------------------------------- Delete ----------------------------- *)

\* for i, value := range t.Todos; nothing to range over returns nil, and
\* the handler writes 204.
DeleteRange(p) ==
    /\ pc[p] = "Delete"
    /\ IF Todos.len = 0
       THEN UNCHANGED <<nextId, locked, issued>> /\ Reply(p, 204, <<>>)
       ELSE BeginRange(p, "DeleteLoop")

\* if value.Id == id; return nil after the loop, and the 204.
DeleteLoop(p) ==
    /\ pc[p] = "DeleteLoop"
    /\ IF heap[Cell(p)].Id = ReqId(p)
       THEN /\ UNCHANGED <<nextId, locked, issued, resp, idx>>
            /\ Commit(Todos, mem, heap, [pc EXCEPT ![p] = "DeleteAppend"], req,
                      [hdr EXCEPT ![p] = NoHdr], todo)
       ELSE IF Last(p)
            THEN UNCHANGED <<nextId, locked, issued>> /\ Reply(p, 204, <<>>)
            ELSE NextIteration(p)

\* t.m.Lock(), taken after the element was found;
\* t.Todos = append(t.Todos[:i], t.Todos[i+1:]...); t.m.Unlock(); return nil,
\* and the handler writes 204.  A slice expression out of range panics
\* before the Unlock, and the mutex stays locked.
DeleteAppend(p) ==
    LET new == RemoveAt(Todos, mem, idx[p]) IN
    /\ pc[p] = "DeleteAppend"
    /\ MutexLock
    /\ UNCHANGED <<nextId, issued>>
    /\ IF SliceInBounds(Todos, mem, idx[p])
       THEN UNCHANGED locked /\ Answer(p, req[p], 204, <<>>, FALSE, new.T, new.M, heap)
       ELSE locked' = TRUE /\ Panic(p)

(* ------------------------------ the server ---------------------------- *)

\* One step of one goroutine, the requests being drawn from Requests.
Next ==
    \E p \in Procs :
        \/ ServeHTTP(p, Requests, MaxId)
        \/ GetAll(p)
        \/ AddUrlToTodos(p)
        \/ EncodeTodos(p)
        \/ Get(p)
        \/ GetLoop(p)
        \/ AddUrlToTodo(p)
        \/ EncodeTodo(p)
        \/ SaveAssignId(p)
        \/ SaveIncrement(p)
        \/ SaveAppend(p)
        \/ SaveUpdateRange(p)
        \/ SaveLoop(p)
        \/ SaveStore(p)
        \/ DeleteAll(p)
        \/ DeleteRange(p)
        \/ DeleteLoop(p)
        \/ DeleteAppend(p)

Spec == Init /\ [][Next]_vars

\* A longer collection under writers only: creates, updates of the item
\* MaxKey and deletes of the first item.
Mutations ==
    {r \in Requests : \/ r.Method = "POST"
                      \/ r.Method = "PATCH" /\ KeyOf(r.Path) = Itoa(MaxKey)
                      \/ r.Method = "DELETE" /\ KeyOf(r.Path) = Itoa(1)}

NextMutations ==
    \E p \in Procs :
        \/ ServeHTTP(p, Mutations, MaxIdMutations)
        \/ AddUrlToTodo(p)
        \/ EncodeTodo(p)
        \/ SaveAssignId(p)
        \/ SaveIncrement(p)
        \/ SaveAppend(p)
        \/ SaveUpdateRange(p)
        \/ SaveLoop(p)
        \/ SaveStore(p)
        \/ DeleteRange(p)
        \/ DeleteLoop(p)
        \/ DeleteAppend(p)

SpecMutations == Init /\ [][NextMutations]_vars

SpecWatched == InitWatched /\ [][Next]_vars

SpecAudited == InitAudited /\ [][Next]_vars

\* The dispatcher under every kind of request: preflights, a method the
\* handler does not know, id segments that are no identity (text, zero, a
\* negative number), bodies that do not decode and a PATCH that carries
\* one field only, next to the well-formed requests on the first item.
Text == <<"a", "b", "c">>

DispatchRequests ==
    {Request("OPTIONS", k, NoBody, Host, FALSE) : k \in {<<>>, Itoa(1)}}
    \cup {Request("PUT", Itoa(1), BodyOf(<<"b">>, <<>>, <<>>), Host, FALSE)}
    \cup {Request("GET", k, NoBody, Host, FALSE) : k \in {<<>>, Itoa(1), Itoa(0), Text}}
    \cup {Request("DELETE", k, NoBody, Host, FALSE) : k \in {<<>>, Itoa(1), Itoa(0 - 1), Text}}
    \cup {Request("POST", <<>>, b, Host, FALSE) : b \in {BodyOf(<<"a">>, <<>>, <<1>>), BadBody}}
    \cup {Request("POST", Itoa(1), BodyOf(<<"a">>, <<>>, <<1>>), Host, FALSE)}
    \cup {Request("PATCH", Itoa(1), b, Host, FALSE) :
              b \in {BodyOf(<<>>, <<TRUE>>, <<>>), BadBody}}
    \cup {Request("PATCH", Itoa(0), BodyOf(<<"b">>, <<>>, <<>>), Host, FALSE)}
    \cup {Request("PATCH", Text, BadBody, Host, FALSE)}

NextDispatch ==
    \E p \in Procs :
        \/ ServeHTTP(p, DispatchRequests, MaxIdDispatch)
        \/ GetAll(p)
        \/ AddUrlToTodos(p)
        \/ EncodeTodos(p)
        \/ Get(p)
        \/ GetLoop(p)
        \/ AddUrlToTodo(p)
        \/ EncodeTodo(p)
        \/ SaveAssignId(p)
        \/ SaveIncrement(p)
        \/ SaveAppend(p)
        \/ SaveUpdateRange(p)
        \/ SaveLoop(p)
        \/ SaveStore(p)
        \/ DeleteAll(p)
        \/ DeleteRange(p)
        \/ DeleteLoop(p)
        \/ DeleteAppend(p)

SpecDispatch == Init /\ [][NextDispatch]_vars

\* Clients that reach the server under two names, one of them over TLS:
\* creates, and reads of the collection and of the first item.
OtherHost == "other.example"

HostRequests ==
    {Request("POST", <<>>, BodyOf(<<"a">>, <<>>, <<>>), Host, FALSE)}
    \cup {Request("GET", k, NoBody, Host, FALSE) : k \in {<<>>, Itoa(1)}}
    \cup {Request("GET", k, NoBody, OtherHost, TRUE) : k \in {<<>>, Itoa(1)}}

NextHosts ==
    \E p \in Procs :
        \/ ServeHTTP(p, HostRequests, MaxId)
        \/ GetAll(p)
        \/ AddUrlToTodos(p)
        \/ EncodeTodos(p)
        \/ Get(p)
        \/ GetLoop(p)
        \/ AddUrlToTodo(p)
        \/ EncodeTodo(p)
        \/ SaveAssignId(p)
        \/ SaveIncrement(p)
        \/ SaveAppend(p)

SpecHosts == Init /\ [][NextHosts]_vars

(* ------------------------------ properties ---------------------------- *)

\* The collection as the store holds it now, and the ids in it.
Collection == View(Todos, mem, heap)
Stored == Ids(Todos, mem, heap)

\* The stored records: the structs the collection points to, url included.
Records(T, M, H) == [k \in 1..T.len |-> H[Cells(M, T.arr)[k]]]

\* Goroutine p, serving a GET, takes this step.
Reads(p) ==
    /\ req[p].Method = "GET"
    /\ <<pc[p], idx[p], resp[p]>> # <<pc'[p], idx'[p], resp'[p]>>

\* Goroutine p performs the write t.Todos[i] = todo in this step.
Stores(p) == pc[p] = "SaveStore" /\ pc'[p] = "addUrlToTodo"

\* Goroutine p leaves Delete's critical section in this step.
Deletes(p) == pc[p] = "DeleteAppend" /\ out'.proc = p

\* The sequence v without the items of identity id.
Without(v, id) == SelectSeq(v, LAMBDA t : t.Id # id)

\* The response body shows the collection v: as many entries, each with the
\* fields of the item at its place, and with its id where a url was written.
Shows(body, v) ==
    /\ Len(body) = Len(v)
    /\ \A k \in DOMAIN body :
          /\ body[k].title = v[k].Title
          /\ body[k].completed = v[k].Completed
          /\ body[k].order = v[k].Order
          /\ body[k].url # NoUrl => body[k].url.id = Itoa(v[k].Id)

\* C1: whatever the interleaving of the creates, no two of the identities
\* Save has assigned are the same.
IdentityUniqueness == \A i, j \in DOMAIN issued : i # j => issued[i] # issued[j]

\* C1, its case: every goroutine is serving a POST at once, and each has
\* drawn its identity and left the first critical section.
ConcurrentCreatesAssigned ==
    \A p \in Procs : req[p].Method = "POST" /\ pc[p] = "SaveAppend"

\* C2: every item in the collection has a non-zero id, and no two items in
\* the collection have the same id.
StoredIdsUniqueNonZero ==
    \A i, j \in DOMAIN Stored : Stored[i] # 0 /\ (i # j => Stored[i] # Stored[j])

\* C3: the counter never decreases, and an identity that Save assigns is
\* greater than every identity assigned before it.
CounterNeverReused ==
    [][/\ nextId' >= nextId
       /\ issued' # issued =>
              \A i \in DOMAIN issued : issued[i] < issued'[Len(issued')]]_vars

\* C3, its case: the first item was created and is gone again, and the POST
\* answered just now has put an item of a new identity into the collection.
FreshIdentityAfterRemoval ==
    /\ out.status = 201
    /\ \A p \in Procs : pc[p] = "idle"
    /\ Len(issued) = 2
    /\ Stored = <<issued[2]>>

\* C4: the write of an update leaves the number of items as it is, puts the
\* updated item where the item of that id was, and leaves every other item
\* as it was.
UpdateInPlace ==
    [][\A p \in Procs : Stores(p) =>
          LET id     == heap[todo[p]].Id
              before == Collection
              after  == View(Todos', mem', heap')
          IN  /\ Len(after) = Len(before)
              /\ \A k \in DOMAIN before :
                    IF before[k].Id = id THEN after[k].Id = id
                    ELSE after[k] = before[k]]_vars

\* C5: Save never inserts: an update is written only for an identity that
\* is in the collection at that moment.
UpdateOnlyOfStoredIdentity ==
    [][\A p \in Procs : Stores(p) => heap[todo[p]].Id \in Range(Stored)]_vars

\* C6: a Delete that returns has removed the item of its id and nothing
\* else, the remaining items keeping their order.
DeleteRemovesOnlyItsItem ==
    [][\A p \in Procs : (Deletes(p) /\ ~out'.panicked) =>
          View(Todos', mem', heap') = Without(Collection, ReqId(p))]_vars

\* C7: a Delete for an id that is not in the collection is answered 204 and
\* leaves the collection as it is.
DeleteOfAbsentIdIsNoOp ==
    [][\A p \in Procs : (Deletes(p) /\ ReqId(p) \notin Range(Stored)) =>
          /\ out'.status = 204
          /\ View(Todos', mem', heap') = Collection]_vars

\* C8: what a GET /todos response reports is the collection as it was at
\* one instant between the receipt of the request and its answer.
ListIsSnapshot ==
    (out.proc # 0 /\ IsList(out.req)) =>
        \E v \in snaps[out.proc] : Shows(out.body, v)

\* C9: the mutex is held only by a handler that is inside a critical
\* section and will release it.
LockHasHolder == locked => \E p \in Procs : pc[p] = "SaveInc"

\* C10: no request ends in a runtime panic.
NoRuntimePanic == ~out.panicked

\* C11: every item in a response carries a url whose scheme and host are
\* those of the request being answered.
UrlOfAnsweredRequest ==
    out.proc # 0 =>
        \A k \in DOMAIN out.body :
            /\ out.body[k].url.scheme = (IF out.req.TLS THEN "https" ELSE "http")
            /\ out.body[k].url.host = out.req.Host

\* C12: no step of a GET changes the store: the collection, the counter and
\* every stored record, its url field included, stay as they are.
ReadsLeaveStoreAlone ==
    [][\A p \in Procs : Reads(p) =>
          /\ nextId' = nextId
          /\ Records(Todos', mem', heap') = Records(Todos, mem, heap)]_vars

\* C13: a GET /todos/{id} that arrives after the POST or PATCH of that item
\* was answered, with no PATCH or DELETE against the item since that write
\* arrived, is answered 200 with the title, completed and order that answer reported.
ReadAfterWrite ==
    (out.proc # 0 /\ out.req.Method = "GET") =>
        \A a \in expect[out.proc] :
            /\ out.status = 200
            /\ out.body[1].title = a.Title
            /\ out.body[1].completed = a.Completed
            /\ out.body[1].order = a.Order

\* The id segment of request r is present and is not a positive integer.
InvalidSegment(r) ==
    LET key == KeyOf(r.Path) IN
    /\ r.Method \in {"GET", "PATCH", "DELETE"}
    /\ key # <<>>
    /\ \/ \E k \in DOMAIN key : ~IsDigit(key[k])
       \/ ParseDigits(key, 0) = 0

\* C14: a GET, PATCH or DELETE whose id segment is no positive integer
\* (text, zero, a negative number) is answered 400, and no step of it
\* changes the collection or the counter.
InvalidIdRejected ==
    [][/\ (out'.proc # 0 /\ InvalidSegment(out'.req)) => out'.status = 400
       /\ \A p \in Procs :
             (pc[p] # "idle" /\ InvalidSegment(req[p]) /\ pc'[p] # pc[p]) =>
                 Collection' = Collection /\ nextId' = nextId]_vars

\* Request r is a POST or a PATCH whose body does not decode.
Undecodable(r) == r.Method \in {"POST", "PATCH"} /\ ~r.Body.ok

\* Request r gets as far as decoding its body: a POST to the collection,
\* a PATCH whose id segment Atoi parses.
ReachesDecode(r) ==
    \/ r.Method = "POST" /\ KeyOf(r.Path) = <<>>
    \/ r.Method = "PATCH" /\ ~Atoi(KeyOf(r.Path)).err

\* C15: a POST or PATCH whose body does not decode is answered in the step
\* that takes it, with the collection, its order and the counter as they
\* were, and with 422 when it is a POST to /todos or a PATCH whose id
\* segment parses.
UndecodableBodyChangesNothing ==
    [][(out'.proc # 0 /\ Undecodable(out'.req)) =>
          /\ pc[out'.proc] = "idle"
          /\ Collection' = Collection
          /\ Records(Todos', mem', heap') = Records(Todos, mem, heap)
          /\ nextId' = nextId
          /\ ReachesDecode(out'.req) => out'.status = 422]_vars

\* C15 as stated: every POST or PATCH whose body does not decode is answered 422.
UndecodableBodyIs422 ==
    (out.proc # 0 /\ Undecodable(out.req)) => out.status = 422

\* A PATCH of a stored item with a body that does not decode has been answered 422.
UndecodablePatchAnswered ==
    /\ out.proc # 0
    /\ out.req.Method = "PATCH"
    /\ Undecodable(out.req)
    /\ out.status = 422
    /\ Atoi(KeyOf(out.req.Path)).val \in Range(Stored)

\* C16: the step of DeleteAll answers 204 and leaves the collection empty,
\* whatever it held; an empty collection stays empty until the append of a
\* Save that inserts; and GetAll on an empty collection is answered 200
\* with the empty sequence.
DeleteAllEmptiesAtOnce ==
    [][/\ \A p \in Procs :
             (pc[p] = "DeleteAll" /\ pc'[p] # pc[p]) =>
                 /\ out'.proc = p /\ out'.status = 204 /\ ~out'.panicked
                 /\ Todos'.len = 0
                 /\ nextId' = nextId
       /\ (Todos.len = 0 /\ Todos'.len # 0) =>
             \E p \in Procs : pc[p] = "SaveAppend" /\ pc'[p] # pc[p]
       /\ \A p \in Procs :
             (pc[p] = "GetAll" /\ pc'[p] # pc[p] /\ Todos.len = 0) =>
                 out'.proc = p /\ out'.status = 200 /\ out'.body = <<>>]_vars

\* DELETE /todos has been answered 204 and the collection is empty while
\* another goroutine is still encoding the list it read before.
DeleteAllDuringList ==
    /\ out.proc # 0
    /\ out.req.Method = "DELETE"
    /\ KeyOf(out.req.Path) = <<>>
    /\ out.status = 204
    /\ Todos.len = 0
    /\ \E q \in Procs : pc[q] = "Encode" /\ hdr[q].len > 0

\* C17: an OPTIONS request is answered in the step that takes it, with
\* the three CORS headers and nothing written after them, whatever its id
\* segment and the collection; the store, the counter and the mutex are
\* as they were.
PreflightAnsweredAtOnce ==
    [][(out'.proc # 0 /\ out'.req.Method = "OPTIONS") =>
          /\ pc[out'.proc] = "idle"
          /\ out'.status = 200
          /\ \A n \in {"access-control-allow-origin",
                       "access-control-allow-methods",
                       "access-control-allow-headers"} :
                 \E h \in out'.header : h[1] = n
          /\ out'.payload = "none" /\ out'.body = <<>>
          /\ Collection' = Collection
          /\ Records(Todos', mem', heap') = Records(Todos, mem, heap)
          /\ nextId' = nextId
          /\ locked' = locked]_vars

\* An OPTIONS request with an id segment has been answered while the
\* collection holds an item.
PreflightOnStoredItem ==
    /\ out.proc # 0
    /\ out.req.Method = "OPTIONS"
    /\ KeyOf(out.req.Path) # <<>>
    /\ Todos.len > 0

\* The statuses the interface table allows for request r: by its method,
\* by whether it has an id segment, whether that parses and whether the
\* body decodes; where the table says "if the item exists", both outcomes.
TableStatus(r) ==
    LET key == KeyOf(r.Path)
        bad == Atoi(key).err
    IN  CASE r.Method = "OPTIONS" -> {200}
          [] r.Method = "GET" ->
                IF key = <<>> THEN {200} ELSE IF bad THEN {400} ELSE {200, 404}
          [] r.Method = "POST" ->
                IF key # <<>> THEN {405} ELSE IF r.Body.ok THEN {201} ELSE {422}
          [] r.Method = "PATCH" ->
                IF bad THEN {400} ELSE IF r.Body.ok THEN {200, 404} ELSE {422}
          [] r.Method = "DELETE" ->
                IF key = <<>> THEN {204} ELSE IF bad THEN {400} ELSE {204}
          [] OTHER -> {405}

\* C18: every request is answered, and with the status the interface
\* table gives for its method, its id segment and the store.
StatusFollowsTable ==
    out.proc # 0 => ~out.panicked /\ out.status \in TableStatus(out.req)

\* C19: a step that changes the collection or the counter is taken by the
\* goroutine that holds the mutex, either since an earlier step or by
\* locking in the step itself, which it can only do when the mutex is free;
\* and the element that Save replaces or Delete removes is, at that step,
\* the one its lookup found.
WritesUnderMutex ==
    [][/\ (Collection' # Collection \/ nextId' # nextId) =>
              \/ ~locked
              \/ \E p \in Procs : pc[p] = "SaveInc" /\ pc'[p] # pc[p]
       /\ \A p \in Procs :
             (Stores(p) \/ Deletes(p)) =>
                 /\ idx[p] < Todos.len
                 /\ Stored[idx[p] + 1] = ReqId(p)]_vars

\* C20: when Save replaces the stored item with the one decoded from a
\* PATCH, the title, completed and order that the body does not carry are
\* those the item had before.
PatchKeepsAbsentFields ==
    [][\A p \in Procs : Stores(p) =>
          LET body == req[p].Body
              was  == Collection[idx[p] + 1]
              is   == Collection'[idx[p] + 1]
          IN  /\ body.title = <<>> => is.Title = was.Title
              /\ body.completed = <<>> => is.Completed = was.Completed
              /\ body.order = <<>> => is.Order = was.Order]_vars

====
